---- MODULE Spec2Model ----
(***************************************************************************)
(* Model of ordered_map (src/ordered_map.h): a std::map Primary Store     *)
(* (map_) ordered by compare_helper, which resolves every key through a    *)
(* pointer to an Index Ledger (keys_) and compares the sequence numbers.   *)
(*                                                                         *)
(* The Store is modelled by its in-order sequence of (key, value) nodes.   *)
(* A tree search is a descent that compares the searched key with one node *)
(* of the remaining window at a time; the node it meets (the shape of the  *)
(* tree) is left open, so a search yields the SET of results some shape    *)
(* gives.  Whenever the sequence is sorted by the comparator in use the    *)
(* set is a singleton and the search is exact.                             *)
(*                                                                         *)
(* compare_helper dereferences keys_->find(k) without testing it against   *)
(* end() (lines 40-43).  For a key the Ledger lacks the read is undefined; *)
(* a build reads some word G at a fixed offset of the Ledger's header, so  *)
(* the model draws G (one value for the whole call) from Garbage.          *)
(***************************************************************************)
EXTENDS Integers, Sequences, FiniteSets, TLC

Inst == {"m1", "m2"}
Keys == {"a", "b", "c"}
Values == {0, 1}
DefaultValue == 0
DefaultKey == ""
NoEntry == -1
NoPos == 0
MaxIndex == 3

Orders == {"less", "greater"}
Garbage == 0..MaxIndex

VARIABLES keys_, map_, index_, compare_, map_comp, cmp_, last, hist, erased

vars == <<keys_, map_, index_, compare_, map_comp, cmp_, last, hist, erased>>

(***************************************************************************)
(* Helpers on sequences and on the Ledger.                                 *)
(***************************************************************************)
Node(k, v) == [key |-> k, val |-> v]

InsertAt(s, p, e) == SubSeq(s, 1, p - 1) \o <<e>> \o SubSeq(s, p, Len(s))

RemoveRange(s, lo, hi) == SubSeq(s, 1, lo - 1) \o SubSeq(s, hi, Len(s))

KeysOf(s) == [n \in 1..Len(s) |-> s[n].key]

KeySet(s) == {s[n].key : n \in 1..Len(s)}

LedgerKeys(L) == {k \in Keys : L[k] # NoEntry}

EmptyLedger == [k \in Keys |-> NoEntry]

\* an insert that overwrites the entry of a key the Ledger holds
add_index_assign(L, idx, key) == [L EXCEPT ![key] = idx]

\* keys_.insert({key, index_++}): std::map::insert keeps an existing entry
add_index(L, idx, key) == IF L[key] = NoEntry THEN [L EXCEPT ![key] = idx] ELSE L

\* an erase that leaves the entry in place
remove_index_kept(L, key) == L

\* keys_.erase(key)
remove_index(L, key) == [L EXCEPT ![key] = NoEntry]

\* a counter that is never advanced
next_index_stuck(idx) == idx

\* index_++
next_index(idx) == idx + 1

RECURSIVE remove_indexes(_, _)
remove_indexes(L, ks) ==
    IF ks = <<>> THEN L ELSE remove_indexes(remove_index(L, Head(ks)), Tail(ks))

(***************************************************************************)
(* compare_helper.  A context c carries the Ledger the comparator points   *)
(* to (c.L), the word read for an absent key (c.G) and the Compare (c.ord).*)
(***************************************************************************)
Ctx(L, G, ord) == [L |-> L, G |-> G, ord |-> ord]

Absent(c, k) == c.L[k] = NoEntry

\* keys_->find(k)->second
Lookup(c, k) == IF Absent(c, k) THEN c.G ELSE c.L[k]

\* a Compare that is std::less whatever the instantiation names
Compare_less(ord, x, y) == x < y

\* cmp_(x, y): std::less<Index> by default
Compare(ord, x, y) == IF ord = "less" THEN x < y ELSE x > y

\* compare_helper::operator()
comp(c, lhs, rhs) == Compare(c.ord, Lookup(c, lhs), Lookup(c, rhs))

\* the call dereferenced an absent lookup
Bad(c, lhs, rhs) == Absent(c, lhs) \/ Absent(c, rhs)

(***************************************************************************)
(* std::map<Key, T, CompareHelper> searches (InnerMapType, line 61) over   *)
(* the in-order sequence s.  Positions are 1..Len(s); Len(s) + 1 is end(). *)
(* Every result carries bad: some comparison of the descent dereferenced   *)
(* an absent Ledger lookup.                                                *)
(***************************************************************************)
EndPos(s) == Len(s) + 1

WithBad(rs, b) == {[r EXCEPT !.bad = r.bad \/ b] : r \in rs}

\* _M_lower_bound: first node n with !comp(key(n), k), in the window lo..hi-1
RECURSIVE LowerBoundIn(_, _, _, _, _)
LowerBoundIn(c, s, k, lo, hi) ==
    IF lo = hi THEN {[pos |-> lo, bad |-> FALSE]}
    ELSE UNION { WithBad(IF comp(c, s[m].key, k)
                         THEN LowerBoundIn(c, s, k, m + 1, hi)
                         ELSE LowerBoundIn(c, s, k, lo, m),
                         Bad(c, s[m].key, k)) : m \in lo..(hi - 1) }

\* _M_upper_bound: first node n with comp(k, key(n)), in the window lo..hi-1
RECURSIVE UpperBoundIn(_, _, _, _, _)
UpperBoundIn(c, s, k, lo, hi) ==
    IF lo = hi THEN {[pos |-> lo, bad |-> FALSE]}
    ELSE UNION { WithBad(IF comp(c, k, s[m].key)
                         THEN UpperBoundIn(c, s, k, lo, m)
                         ELSE UpperBoundIn(c, s, k, m + 1, hi),
                         Bad(c, s[m].key, k)) : m \in lo..(hi - 1) }

MapLowerBound(c, s, k) == LowerBoundIn(c, s, k, 1, EndPos(s))

\* an upper bound that stops at the first node not before k
MapUpperBound_lower(c, s, k) == LowerBoundIn(c, s, k, 1, EndPos(s))

MapUpperBound(c, s, k) == UpperBoundIn(c, s, k, 1, EndPos(s))

\* std::map::equal_range: three-way descent, then the two bounds below the
\* node found equivalent
RECURSIVE EqualRangeIn(_, _, _, _, _)
EqualRangeIn(c, s, k, lo, hi) ==
    IF lo = hi THEN {[lo |-> lo, hi |-> lo, bad |-> FALSE]}
    ELSE UNION { WithBad(
            IF comp(c, s[m].key, k) THEN EqualRangeIn(c, s, k, m + 1, hi)
            ELSE IF comp(c, k, s[m].key) THEN EqualRangeIn(c, s, k, lo, m)
            ELSE {[lo |-> l.pos, hi |-> u.pos, bad |-> l.bad \/ u.bad] :
                     l \in LowerBoundIn(c, s, k, lo, m),
                     u \in UpperBoundIn(c, s, k, m + 1, hi)},
            Bad(c, s[m].key, k)) : m \in lo..(hi - 1) }

MapEqualRange(c, s, k) == EqualRangeIn(c, s, k, 1, EndPos(s))

\* std::map::find: lower bound j, then end() if j is end() or comp(k, key(j))
MapFind(c, s, k) ==
    { IF r.pos = EndPos(s) THEN r
      ELSE [pos |-> IF comp(c, k, s[r.pos].key) THEN EndPos(s) ELSE r.pos,
            bad |-> r.bad \/ Bad(c, k, s[r.pos].key)] : r \in MapLowerBound(c, s, k) }

\* _M_get_insert_unique_pos: descend to a leaf gap p, then compare with the
\* node before the gap; ins = FALSE returns the node that blocks the insert
MapInsertPos(c, s, k) ==
    { IF r.pos = 1 THEN [pos |-> 1, ins |-> TRUE, bad |-> r.bad]
      ELSE IF comp(c, s[r.pos - 1].key, k)
           THEN [pos |-> r.pos, ins |-> TRUE,
                 bad |-> r.bad \/ Bad(c, s[r.pos - 1].key, k)]
           ELSE [pos |-> r.pos - 1, ins |-> FALSE,
                 bad |-> r.bad \/ Bad(c, s[r.pos - 1].key, k)] : r \in MapUpperBound(c, s, k) }

\* _M_get_insert_hint_unique_pos: try the neighbours of the hint h first
MapInsertHintPos(c, s, h, k) ==
    LET n == Len(s)
        here(p) == {[pos |-> p, ins |-> TRUE, bad |-> FALSE]}
    IN  IF h = n + 1
        THEN IF n > 0 /\ comp(c, s[n].key, k)
             THEN WithBad(here(n + 1), Bad(c, s[n].key, k))
             ELSE WithBad(MapInsertPos(c, s, k), n > 0 /\ Bad(c, s[n].key, k))
        ELSE WithBad(
             IF comp(c, k, s[h].key)
             THEN IF h = 1 THEN here(1)
                  ELSE IF comp(c, s[h - 1].key, k)
                       THEN WithBad(here(h), Bad(c, s[h - 1].key, k))
                       ELSE WithBad(MapInsertPos(c, s, k), Bad(c, s[h - 1].key, k))
             ELSE IF comp(c, s[h].key, k)
                  THEN IF h = n THEN here(n + 1)
                       ELSE IF comp(c, k, s[h + 1].key)
                            THEN WithBad(here(h + 1), Bad(c, k, s[h + 1].key))
                            ELSE WithBad(MapInsertPos(c, s, k), Bad(c, k, s[h + 1].key))
                  ELSE {[pos |-> h, ins |-> FALSE, bad |-> FALSE]},
             Bad(c, k, s[h].key))

\* the Store after an insert decided by r
Placed(s, r, k, v) == IF r.ins THEN InsertAt(s, r.pos, Node(k, v)) ELSE s

\* map_.insert(first, last): every element is inserted with the hint end()
RECURSIVE MapInsertRange(_, _, _)
MapInsertRange(c, s, vs) ==
    IF vs = <<>> THEN {[s |-> s, bad |-> FALSE]}
    ELSE UNION { WithBad(MapInsertRange(c, Placed(s, r, Head(vs).key, Head(vs).val), Tail(vs)),
                         r.bad) : r \in MapInsertHintPos(c, s, EndPos(s), Head(vs).key) }

(***************************************************************************)
(* State.  keys_, map_, index_, compare_ are the members (lines 275-278);  *)
(* compare_[i] and map_comp[i] name the instance whose Ledger the member   *)
(* compare_ and the comparator copy held by map_ point to.  cmp_ is the    *)
(* Compare of the instantiation.  last records the latest call and what it *)
(* returned (again: the key of an insertion was in erased; seen: the keys   *)
(* the instance's Ledger holds when the call's Store operation runs);      *)
(* hist[i] is the                                                          *)
(* order of first insertion while the instance has seen nothing but        *)
(* single-key insertions of distinct keys; erased[i]                       *)
(* holds the keys an erase took out of i while they were present and that  *)
(* no insertion attempt has named since.                                   *)
(***************************************************************************)
Idle == [op |-> "none", inst |-> "", other |-> "", key |-> DefaultKey, val |-> 0,
         pos |-> NoPos, pos2 |-> NoPos, ok |-> FALSE, bad |-> FALSE, again |-> FALSE,
         out |-> <<>>, seen |-> {}]

Tainted == [ok |-> FALSE, order |-> <<>>]

\* ordered_map(): keys_{}, compare_{&keys_}, map_{compare_}, index_ = 0
Init ==
    /\ keys_ = [i \in Inst |-> EmptyLedger]
    /\ map_ = [i \in Inst |-> <<>>]
    /\ index_ = [i \in Inst |-> 0]
    /\ compare_ = [i \in Inst |-> i]
    /\ map_comp = [i \in Inst |-> i]
    /\ cmp_ = "less"
    /\ last = Idle
    /\ hist = [i \in Inst |-> [ok |-> TRUE, order |-> <<>>]]
    /\ erased = [i \in Inst |-> {}]

\* the comparator context of i's Store when the Ledgers are K
StoreCtx(K, i, G) == Ctx(K[map_comp[i]], G, cmp_)

\* the words an absent lookup can read in a call on i's Store that compares
\* keys among ks and the Store's own; when the Ledger the comparator points
\* to holds them all nothing is read and one word stands for all
Reads(K, i, ks) ==
    {G \in Garbage : G = 0 \/ \E x \in ks \cup KeySet(map_[i]) :
                                  K[map_comp[i]][x] = NoEntry}

\* insertion attempts still allowed (keeps index_ below MaxIndex)
CanInsert(n) == index_["m1"] + index_["m2"] + n <= MaxIndex

Logged(h, k) ==
    IF h.ok /\ k \notin {h.order[n] : n \in 1..Len(h.order)}
    THEN [h EXCEPT !.order = Append(h.order, k)]
    ELSE Tainted

size(i) == Len(map_[i])

\* the sequence begin()..end() yields
Iteration(i) == map_[i]

(***************************************************************************)
(* Single-key insertions.                                                  *)
(***************************************************************************)
\* map_.insert(value) / map_.emplace(value) when h is NoPos, else the
\* hinted form with hint h
MapInsert(c, s, h, k) ==
    IF h = NoPos THEN MapInsertPos(c, s, k) ELSE MapInsertHintPos(c, s, h, k)

\* the common shape: add_index(key), then the Store insert
Inserting(i, h, k, v, name) ==
    /\ LET K1 == [keys_ EXCEPT ![i] = add_index(keys_[i], index_[i], k)]
       IN  \E G \in Reads(K1, i, {k}) :
             \E r \in MapInsert(StoreCtx(K1, i, G), map_[i], h, k) :
               /\ keys_' = K1
               /\ index_' = [index_ EXCEPT ![i] = next_index(index_[i])]
               /\ map_' = [map_ EXCEPT ![i] = Placed(map_[i], r, k, v)]
               /\ last' = [Idle EXCEPT !.op = name, !.inst = i, !.key = k, !.val = v,
                                        !.pos = r.pos, !.ok = r.ins, !.bad = r.bad,
                                        !.again = k \in erased[i],
                                        !.seen = LedgerKeys(K1[i])]
    /\ hist' = [hist EXCEPT ![i] = Logged(hist[i], k)]
    /\ erased' = [erased EXCEPT ![i] = erased[i] \ {k}]
    /\ UNCHANGED <<compare_, map_comp, cmp_>>

\* insert(const value_type&), insert(P&&)
Insert(i, k, v) ==
    /\ CanInsert(1)
    /\ Inserting(i, NoPos, k, v, "insert")

\* insert(hint, value)
InsertHint(i, h, k, v) ==
    /\ CanInsert(1)
    /\ h \in 1..EndPos(map_[i])
    /\ Inserting(i, h, k, v, "insert_hint")

\* emplace(args...)
Emplace(i, k, v) ==
    /\ CanInsert(1)
    /\ Inserting(i, NoPos, k, v, "emplace")

\* emplace_hint(hint, args...)
EmplaceHint(i, h, k, v) ==
    /\ CanInsert(1)
    /\ h \in 1..EndPos(map_[i])
    /\ Inserting(i, h, k, v, "emplace_hint")

\* std::map::operator[]: lower bound, then a hinted emplace of (key, T())
\* unless the node found is equivalent
MapSubscript(c, s, k) ==
    UNION { IF l.pos = EndPos(s)
            THEN WithBad(MapInsertHintPos(c, s, l.pos, k), l.bad)
            ELSE WithBad(IF comp(c, k, s[l.pos].key)
                         THEN MapInsertHintPos(c, s, l.pos, k)
                         ELSE {[pos |-> l.pos, ins |-> FALSE, bad |-> FALSE]},
                         l.bad \/ Bad(c, k, s[l.pos].key)) : l \in MapLowerBound(c, s, k) }

\* operator[](key): add_index(key); return map_[key]
Subscript(i, k) ==
    /\ CanInsert(1)
    /\ LET K1 == [keys_ EXCEPT ![i] = add_index(keys_[i], index_[i], k)]
       IN  \E G \in Reads(K1, i, {k}) :
         LET c == StoreCtx(K1, i, G)
         IN  \E r \in MapSubscript(c, map_[i], k) :
               LET s1 == Placed(map_[i], r, k, DefaultValue)
               IN  /\ keys_' = K1
                   /\ index_' = [index_ EXCEPT ![i] = next_index(index_[i])]
                   /\ map_' = [map_ EXCEPT ![i] = s1]
                   /\ last' = [Idle EXCEPT !.op = "subscript", !.inst = i, !.key = k,
                                            !.val = s1[r.pos].val, !.pos = r.pos,
                                            !.ok = r.ins, !.bad = r.bad,
                                            !.again = k \in erased[i],
                                            !.seen = LedgerKeys(K1[i])]
    /\ hist' = [hist EXCEPT ![i] = Logged(hist[i], k)]
    /\ erased' = [erased EXCEPT ![i] = erased[i] \ {k}]
    /\ UNCHANGED <<compare_, map_comp, cmp_>>

(***************************************************************************)
(* Insertions whose Store operation fails.  std::map creates the node      *)
(* (allocation, construction of the pair) once the key's place is found;   *)
(* a failure there throws out of the call and leaves the tree as it was.   *)
(***************************************************************************)
\* the common shape: add_index(key) has run, the Store found the place r
\* and threw on creating the node; nothing catches it
Throwing(i, k, v, r, K1, name) ==
    /\ r.ins
    /\ keys_' = K1
    /\ index_' = [index_ EXCEPT ![i] = next_index(index_[i])]
    /\ last' = [Idle EXCEPT !.op = name, !.inst = i, !.key = k, !.val = v,
                             !.pos = r.pos, !.bad = r.bad,
                             !.again = k \in erased[i], !.seen = LedgerKeys(K1[i])]
    /\ hist' = [hist EXCEPT ![i] = Tainted]
    /\ erased' = [erased EXCEPT ![i] = erased[i] \ {k}]
    /\ UNCHANGED <<map_, compare_, map_comp, cmp_>>

\* an insert that takes its Ledger entry back when the Store throws
InsertThrow_rollback(i, k, v) ==
    /\ CanInsert(1)
    /\ LET K1 == [keys_ EXCEPT ![i] = add_index(keys_[i], index_[i], k)]
       IN  \E G \in Reads(K1, i, {k}) :
             \E r \in MapInsert(StoreCtx(K1, i, G), map_[i], NoPos, k) :
               Throwing(i, k, v, r, keys_, "insert_throw")

\* insert(value): add_index(value.first); map_.insert(value) throws
InsertThrow(i, k, v) ==
    /\ CanInsert(1)
    /\ LET K1 == [keys_ EXCEPT ![i] = add_index(keys_[i], index_[i], k)]
       IN  \E G \in Reads(K1, i, {k}) :
             \E r \in MapInsert(StoreCtx(K1, i, G), map_[i], NoPos, k) :
               Throwing(i, k, v, r, K1, "insert_throw")

\* operator[](key): add_index(key); map_[key] throws
SubscriptThrow(i, k) ==
    /\ CanInsert(1)
    /\ LET K1 == [keys_ EXCEPT ![i] = add_index(keys_[i], index_[i], k)]
       IN  \E G \in Reads(K1, i, {k}) :
             \E r \in MapSubscript(StoreCtx(K1, i, G), map_[i], k) :
               Throwing(i, k, DefaultValue, r, K1, "subscript_throw")

(***************************************************************************)
(* Range insertion, erasure, clear, swap, copy.                            *)
(***************************************************************************)
\* a range insertion that advances the counter once for the whole range
next_indexes_once(idx, vs) == IF vs = <<>> THEN idx ELSE next_index(idx)

RECURSIVE next_indexes(_, _)
next_indexes(idx, vs) == IF vs = <<>> THEN idx ELSE next_indexes(next_index(idx), Tail(vs))

RECURSIVE add_indexes(_, _, _)
add_indexes(L, idx, vs) ==
    IF vs = <<>> THEN L
    ELSE add_indexes(add_index(L, idx, Head(vs).key), next_index(idx), Tail(vs))

Ranges == {<<Node(k1, v1), Node(k2, v2)>> : k1 \in Keys, v1 \in Values,
                                            k2 \in Keys, v2 \in {DefaultValue}}

\* insert(first, last), insert(initializer_list): add_index for every
\* element, then map_.insert of the range
InsertRange(i, vs) ==
    /\ CanInsert(Len(vs))
    /\ LET K1 == [keys_ EXCEPT ![i] = add_indexes(keys_[i], index_[i], vs)]
       IN  \E G \in Reads(K1, i, KeySet(vs)) :
         LET c == StoreCtx(K1, i, G)
         IN  \E r \in MapInsertRange(c, map_[i], vs) :
               /\ keys_' = K1
               /\ index_' = [index_ EXCEPT ![i] = next_indexes(index_[i], vs)]
               /\ map_' = [map_ EXCEPT ![i] = r.s]
               /\ last' = [Idle EXCEPT !.op = "insert_range", !.inst = i,
                                        !.out = KeysOf(vs), !.bad = r.bad,
                                        !.seen = LedgerKeys(K1[i])]
    /\ hist' = [hist EXCEPT ![i] = Tainted]
    /\ erased' = [erased EXCEPT ![i] = erased[i] \ KeySet(vs)]
    /\ UNCHANGED <<compare_, map_comp, cmp_>>

\* an erase(pos) that does map_.erase(pos) first and remove_index after
EraseIt_store_first(i, p) ==
    /\ p \in 1..Len(map_[i])
    /\ keys_' = [keys_ EXCEPT ![i] = remove_index(keys_[i], map_[i][p].key)]
    /\ map_' = [map_ EXCEPT ![i] = RemoveRange(map_[i], p, p + 1)]
    /\ last' = [Idle EXCEPT !.op = "erase_it", !.inst = i, !.key = map_[i][p].key,
                             !.pos = p, !.ok = TRUE, !.seen = LedgerKeys(keys_[i])]
    /\ hist' = [hist EXCEPT ![i] = Tainted]
    /\ erased' = [erased EXCEPT ![i] = erased[i] \cup {map_[i][p].key}]
    /\ UNCHANGED <<index_, compare_, map_comp, cmp_>>

\* erase(const_iterator pos): remove_index(pos->first); map_.erase(pos)
EraseIt(i, p) ==
    /\ p \in 1..Len(map_[i])
    /\ keys_' = [keys_ EXCEPT ![i] = remove_index(keys_[i], map_[i][p].key)]
    /\ map_' = [map_ EXCEPT ![i] = RemoveRange(map_[i], p, p + 1)]
    /\ last' = [Idle EXCEPT !.op = "erase_it", !.inst = i, !.key = map_[i][p].key,
                             !.pos = p, !.ok = TRUE, !.seen = LedgerKeys(keys_'[i])]
    /\ hist' = [hist EXCEPT ![i] = Tainted]
    /\ erased' = [erased EXCEPT ![i] = erased[i] \cup {map_[i][p].key}]
    /\ UNCHANGED <<index_, compare_, map_comp, cmp_>>

\* erase(first, last): remove_index for every element, map_.erase(first, last)
EraseRange(i, lo, hi) ==
    /\ lo \in 1..EndPos(map_[i])
    /\ hi \in lo..EndPos(map_[i])
    /\ keys_' = [keys_ EXCEPT ![i] =
                    remove_indexes(keys_[i], KeysOf(SubSeq(map_[i], lo, hi - 1)))]
    /\ map_' = [map_ EXCEPT ![i] = RemoveRange(map_[i], lo, hi)]
    /\ last' = [Idle EXCEPT !.op = "erase_range", !.inst = i, !.pos = lo, !.pos2 = hi,
                             !.ok = TRUE, !.out = KeysOf(SubSeq(map_[i], lo, hi - 1)),
                             !.seen = LedgerKeys(keys_'[i])]
    /\ hist' = [hist EXCEPT ![i] = Tainted]
    /\ erased' = [erased EXCEPT ![i] = erased[i] \cup KeySet(SubSeq(map_[i], lo, hi - 1))]
    /\ UNCHANGED <<index_, compare_, map_comp, cmp_>>

\* erase(const key_type&): res = map_.erase(key); if (res > 0) remove_index(key)
EraseKey(i, k) ==
    /\ \E G \in Reads(keys_, i, {k}) :
         \E r \in MapEqualRange(StoreCtx(keys_, i, G), map_[i], k) :
            LET res == r.hi - r.lo
            IN  /\ map_' = [map_ EXCEPT ![i] = RemoveRange(map_[i], r.lo, r.hi)]
                /\ keys_' = IF res > 0
                            THEN [keys_ EXCEPT ![i] = remove_index(keys_[i], k)]
                            ELSE keys_
                /\ last' = [Idle EXCEPT !.op = "erase_key", !.inst = i, !.key = k,
                                         !.val = res, !.pos = r.lo, !.pos2 = r.hi,
                                         !.ok = res > 0, !.bad = r.bad,
                                         !.seen = LedgerKeys(keys_[i])]
                /\ erased' = [erased EXCEPT ![i] =
                                 IF k \in KeySet(SubSeq(map_[i], r.lo, r.hi - 1))
                                 THEN erased[i] \cup {k} ELSE erased[i]]
    /\ hist' = [hist EXCEPT ![i] = Tainted]
    /\ UNCHANGED <<index_, compare_, map_comp, cmp_>>

\* a clear that also restarts the counter
Clear_reset(i) ==
    /\ map_' = [map_ EXCEPT ![i] = <<>>]
    /\ keys_' = [keys_ EXCEPT ![i] = EmptyLedger]
    /\ index_' = [index_ EXCEPT ![i] = 0]
    /\ last' = [Idle EXCEPT !.op = "clear", !.inst = i, !.ok = TRUE,
                             !.seen = LedgerKeys(keys_[i])]
    /\ hist' = [hist EXCEPT ![i] = Tainted]
    /\ erased' = [erased EXCEPT ![i] = {}]
    /\ UNCHANGED <<compare_, map_comp, cmp_>>

\* clear(): map_.clear(); keys_.clear()
Clear(i) ==
    /\ map_' = [map_ EXCEPT ![i] = <<>>]
    /\ keys_' = [keys_ EXCEPT ![i] = EmptyLedger]
    /\ last' = [Idle EXCEPT !.op = "clear", !.inst = i, !.ok = TRUE,
                             !.seen = LedgerKeys(keys_[i])]
    /\ hist' = [hist EXCEPT ![i] = Tainted]
    /\ erased' = [erased EXCEPT ![i] = {}]
    /\ UNCHANGED <<index_, compare_, map_comp, cmp_>>

\* a swap that exchanges nothing
Exchanged_none(f, i, j) == f

Exchanged(f, i, j) == [f EXCEPT ![i] = f[j], ![j] = f[i]]

\* a swap that leaves every comparator pointing at its own instance's Ledger
Swap_rebound(i, j) ==
    /\ map_' = Exchanged(map_, i, j)
    /\ keys_' = Exchanged(keys_, i, j)
    /\ last' = [Idle EXCEPT !.op = "swap", !.inst = i, !.other = j, !.ok = TRUE]
    /\ hist' = [hist EXCEPT ![i] = Tainted, ![j] = Tainted]
    /\ erased' = [erased EXCEPT ![i] = {}, ![j] = {}]
    /\ UNCHANGED <<index_, compare_, map_comp, cmp_>>

\* swap(other): std::swap of map_ (tree and comparator copy), compare_ and
\* keys_; index_ is not exchanged
Swap(i, j) ==
    /\ map_' = Exchanged(map_, i, j)
    /\ map_comp' = Exchanged(map_comp, i, j)
    /\ compare_' = Exchanged(compare_, i, j)
    /\ keys_' = Exchanged(keys_, i, j)
    /\ last' = [Idle EXCEPT !.op = "swap", !.inst = i, !.other = j, !.ok = TRUE]
    /\ hist' = [hist EXCEPT ![i] = Tainted, ![j] = Tainted]
    /\ erased' = [erased EXCEPT ![i] = {}, ![j] = {}]
    /\ UNCHANGED <<index_, cmp_>>

\* the implicit member-wise copy j = i of the four members
Copy(i, j) ==
    /\ i # j
    /\ keys_' = [keys_ EXCEPT ![j] = keys_[i]]
    /\ compare_' = [compare_ EXCEPT ![j] = compare_[i]]
    /\ map_' = [map_ EXCEPT ![j] = map_[i]]
    /\ map_comp' = [map_comp EXCEPT ![j] = map_comp[i]]
    /\ index_' = [index_ EXCEPT ![j] = index_[i]]
    /\ last' = [Idle EXCEPT !.op = "copy", !.inst = i, !.other = j, !.ok = TRUE]
    /\ hist' = [hist EXCEPT ![j] = Tainted]
    /\ erased' = [erased EXCEPT ![j] = {}]
    /\ UNCHANGED cmp_

(***************************************************************************)
(* Lookups: they change nothing but last.                                  *)
(***************************************************************************)
Frame == UNCHANGED <<keys_, map_, index_, compare_, map_comp, cmp_, hist, erased>>

\* at(key): map_.at(key) throws std::out_of_range when find fails
At(i, k) ==
    /\ \E G \in Reads(keys_, i, {k}) : \E r \in MapFind(StoreCtx(keys_, i, G), map_[i], k) :
         last' = [Idle EXCEPT !.op = "at", !.inst = i, !.key = k,
                               !.ok = r.pos # EndPos(map_[i]),
                               !.pos = r.pos,
                               !.val = IF r.pos = EndPos(map_[i]) THEN 0
                                       ELSE map_[i][r.pos].val,
                               !.bad = r.bad]
    /\ Frame

\* find(key)
Find(i, k) ==
    /\ \E G \in Reads(keys_, i, {k}) : \E r \in MapFind(StoreCtx(keys_, i, G), map_[i], k) :
         last' = [Idle EXCEPT !.op = "find", !.inst = i, !.key = k, !.pos = r.pos,
                               !.ok = r.pos # EndPos(map_[i]), !.bad = r.bad]
    /\ Frame

\* count(key): 1 when find succeeds
Count(i, k) ==
    /\ \E G \in Reads(keys_, i, {k}) : \E r \in MapFind(StoreCtx(keys_, i, G), map_[i], k) :
         last' = [Idle EXCEPT !.op = "count", !.inst = i, !.key = k,
                               !.val = IF r.pos = EndPos(map_[i]) THEN 0 ELSE 1,
                               !.bad = r.bad]
    /\ Frame

\* equal_range(key)
EqualRange(i, k) ==
    /\ \E G \in Reads(keys_, i, {k}) : \E r \in MapEqualRange(StoreCtx(keys_, i, G), map_[i], k) :
         last' = [Idle EXCEPT !.op = "equal_range", !.inst = i, !.key = k,
                               !.pos = r.lo, !.pos2 = r.hi, !.bad = r.bad]
    /\ Frame

\* lower_bound(key)
LowerBound(i, k) ==
    /\ \E G \in Reads(keys_, i, {k}) : \E r \in MapLowerBound(StoreCtx(keys_, i, G), map_[i], k) :
         last' = [Idle EXCEPT !.op = "lower_bound", !.inst = i, !.key = k,
                               !.pos = r.pos, !.bad = r.bad]
    /\ Frame

\* upper_bound(key)
UpperBound(i, k) ==
    /\ \E G \in Reads(keys_, i, {k}) : \E r \in MapUpperBound(StoreCtx(keys_, i, G), map_[i], k) :
         last' = [Idle EXCEPT !.op = "upper_bound", !.inst = i, !.key = k,
                               !.pos = r.pos, !.bad = r.bad]
    /\ Frame

\* an equality of the pair sets, blind to the order
MapEqual_unordered(s, t) == {s[n] : n \in 1..Len(s)} = {t[n] : n \in 1..Len(t)}

\* std::map::operator==: equal sizes and pairwise equal (key, value) elements
\* in iteration order; the comparator takes no part
MapEqual(s, t) ==
    /\ Len(s) = Len(t)
    /\ \A n \in 1..Len(s) : s[n].key = t[n].key /\ s[n].val = t[n].val

\* operator==(rhs): map_ == rhs.map_
Equals(i, j) ==
    /\ last' = [Idle EXCEPT !.op = "equals", !.inst = i, !.other = j,
                             !.ok = MapEqual(map_[i], map_[j])]
    /\ Frame

Filler(n) == [x \in 1..n |-> DefaultKey]

\* keys(): a vector of keys_.size() default keys, overwritten from begin()
\* by one key per Store node; ok = FALSE when the Store has more nodes than
\* the vector has elements (the transform writes past its end)
KeysResult(L, s) ==
    LET n == Cardinality(LedgerKeys(L))
    IN  IF Len(s) <= n
        THEN [out |-> KeysOf(s) \o Filler(n - Len(s)), ok |-> TRUE]
        ELSE [out |-> SubSeq(KeysOf(s), 1, n), ok |-> FALSE]

GetKeys(i) ==
    /\ last' = [Idle EXCEPT !.op = "keys", !.inst = i,
                             !.out = KeysResult(keys_[i], map_[i]).out,
                             !.ok = KeysResult(keys_[i], map_[i]).ok]
    /\ Frame

(***************************************************************************)
(* Specifications.  Spec: every call on one instance.  SpecPair: two       *)
(* instances over two keys, with swap between them.  SpecOrder: every      *)
(* mutator of one instance under either Compare.  SpecCopy: two instances  *)
(* with copies between them.  SpecEqual: operator== on two range-          *)
(* constructed instances.  SpecThrow: one instance whose insertions may    *)
(* fail in the Store.                                                      *)
(***************************************************************************)
Mutate(i) ==
    \/ \E k \in Keys, v \in Values : Insert(i, k, v)
    \/ \E k \in Keys, v \in Values, h \in 1..(MaxIndex + 1) : InsertHint(i, h, k, v)
    \/ \E vs \in Ranges : InsertRange(i, vs)
    \/ \E k \in Keys, v \in Values : Emplace(i, k, v)
    \/ \E k \in Keys, v \in Values, h \in 1..(MaxIndex + 1) : EmplaceHint(i, h, k, v)
    \/ \E k \in Keys : Subscript(i, k)
    \/ \E p \in 1..MaxIndex : EraseIt(i, p)
    \/ \E lo \in 1..(MaxIndex + 1), hi \in 1..(MaxIndex + 1) : EraseRange(i, lo, hi)
    \/ \E k \in Keys : EraseKey(i, k)
    \/ Clear(i)

Observe(i) ==
    \/ \E k \in Keys : At(i, k)
    \/ \E k \in Keys : Find(i, k)
    \/ \E k \in Keys : Count(i, k)
    \/ \E k \in Keys : EqualRange(i, k)
    \/ \E k \in Keys : LowerBound(i, k)
    \/ \E k \in Keys : UpperBound(i, k)
    \/ GetKeys(i)

Next == Mutate("m1") \/ Observe("m1")

Spec == Init /\ [][Next]_vars

PairKeys == {"a", "b"}

NextPair ==
    \/ \E i \in Inst, k \in PairKeys, v \in Values : Insert(i, k, v)
    \/ \E i \in Inst, k \in PairKeys : EraseKey(i, k)
    \/ \E i \in Inst : Clear(i)
    \/ \E i \in Inst, j \in Inst : Swap(i, j)

SpecPair == Init /\ [][NextPair]_vars

\* ordered_map<Key, T, Index, Compare>(): as Init, for either Compare
InitOrder ==
    /\ keys_ = [i \in Inst |-> EmptyLedger]
    /\ map_ = [i \in Inst |-> <<>>]
    /\ index_ = [i \in Inst |-> 0]
    /\ compare_ = [i \in Inst |-> i]
    /\ map_comp = [i \in Inst |-> i]
    /\ cmp_ \in Orders
    /\ last = Idle
    /\ hist = [i \in Inst |-> [ok |-> TRUE, order |-> <<>>]]
    /\ erased = [i \in Inst |-> {}]

NextOrder == Mutate("m1")

SpecOrder == InitOrder /\ [][NextOrder]_vars

\* one instance whose insertions may fail in the Store; of the calls only
\* those that compare no key the Ledger may lack, so that a Ledger entry
\* without a Store node comes from a failed insertion alone
NextThrow ==
    \/ \E k \in Keys, v \in Values : Insert("m1", k, v)
    \/ \E k \in Keys : Subscript("m1", k)
    \/ \E k \in Keys, v \in Values : InsertThrow("m1", k, v)
    \/ \E k \in Keys : SubscriptThrow("m1", k)
    \/ \E p \in 1..MaxIndex : EraseIt("m1", p)
    \/ Clear("m1")

SpecThrow == Init /\ [][NextThrow]_vars

\* two instances over two keys, one made a copy of the other at any time
NextCopy ==
    \/ \E i \in Inst, k \in PairKeys, v \in Values : Insert(i, k, v)
    \/ \E i \in Inst, k \in PairKeys : EraseKey(i, k)
    \/ \E i \in Inst : Clear(i)
    \/ \E i \in Inst, j \in Inst : Copy(i, j)
    \/ \E i \in Inst, k \in PairKeys : Find(i, k)

SpecCopy == Init /\ [][NextCopy]_vars

\* the inputs of a range construction: up to MaxIndex pairs over PairKeys
Inputs == UNION {[1..n -> {Node(k, v) : k \in PairKeys, v \in Values}] : n \in 0..MaxIndex}

\* ordered_map(first, last), ordered_map(initializer_list): insert(x) for
\* every element in turn, from the empty container; all keys compared are
\* in the Ledger, so every insert position is determined
RECURSIVE Constructed(_, _, _, _, _)
Constructed(L, s, idx, vs, ord) ==
    IF vs = <<>> THEN [keys |-> L, map |-> s, index |-> idx]
    ELSE LET k == Head(vs).key
             L1 == add_index(L, idx, k)
             r == CHOOSE x \in MapInsertPos(Ctx(L1, 0, ord), s, k) : TRUE
         IN  Constructed(L1, Placed(s, r, k, Head(vs).val), next_index(idx), Tail(vs), ord)

\* two containers, each constructed from a range
InitEqual ==
    \E v1 \in Inputs, v2 \in Inputs :
       LET c1 == Constructed(EmptyLedger, <<>>, 0, v1, "less")
           c2 == Constructed(EmptyLedger, <<>>, 0, v2, "less")
       IN  /\ keys_ = [i \in Inst |-> IF i = "m1" THEN c1.keys ELSE c2.keys]
           /\ map_ = [i \in Inst |-> IF i = "m1" THEN c1.map ELSE c2.map]
           /\ index_ = [i \in Inst |-> IF i = "m1" THEN c1.index ELSE c2.index]
           /\ compare_ = [i \in Inst |-> i]
           /\ map_comp = [i \in Inst |-> i]
           /\ cmp_ = "less"
           /\ last = Idle
           /\ hist = [i \in Inst |-> Tainted]
           /\ erased = [i \in Inst |-> {}]

NextEqual == \E i \in Inst, j \in Inst : Equals(i, j)

SpecEqual == InitEqual /\ [][NextEqual]_vars

(***************************************************************************)
(* Properties.                                                             *)
(***************************************************************************)
\* C1: after single-key insertions (insert, emplace, operator[], hinted or
\* not) of distinct keys into a freshly constructed container, and nothing
\* else, begin()..end() yields the keys in the order of their insertion.
C1_InsertionOrder ==
    \A i \in Inst : hist[i].ok => KeysOf(Iteration(i)) = hist[i].order

\* three keys inserted against their own order
C1_Witness ==
    /\ hist["m1"].ok
    /\ hist["m1"].order = <<"c", "a", "b">>
    /\ last.op = "subscript"

\* the Ledger and the Store of i hold the same keys, and size() counts both
Corresponds(K, M, i) ==
    /\ LedgerKeys(K[i]) = KeySet(M[i])
    /\ Len(M[i]) = Cardinality(LedgerKeys(K[i]))
    /\ Len(M[i]) = Cardinality(KeySet(M[i]))

\* C2: after every completed call on one instance the key-set of the Index
\* Ledger equals the key-set of the Primary Store, and size() equals the
\* entry count of both.
C2_Correspondence == Corresponds(keys_, map_, "m1")

\* C3: at(key) for a key the container lacks fails with out-of-range (and,
\* being a lookup, leaves Ledger, Store and counter alone).
C3_AtAbsentThrows ==
    (last.op = "at" /\ last.key \notin KeySet(map_[last.inst])) => ~last.ok

\* C4: no call invokes the Order Comparator with a key that is not in the
\* Index Ledger.
C4_NoAbsentLookup == ~last.bad

InsertOps == {"insert", "insert_hint", "emplace", "emplace_hint", "subscript"}

\* C5: a key that was erased while present and is inserted again gets the
\* new sequence number index_ and comes after every key live at that time.
C5_Reinsertion ==
    [][\A k \in Keys :
         (last'.op \in InsertOps /\ last'.inst = "m1" /\ last'.key = k
            /\ k \in erased["m1"])
         => /\ KeysOf(map_'["m1"]) = Append(KeysOf(map_["m1"]), k)
            /\ keys_'["m1"][k] = index_["m1"]
            /\ \A x \in KeySet(map_["m1"]) : keys_'["m1"][x] < keys_'["m1"][k]]_vars

\* b, c inserted, b erased and inserted again: b is behind c with number 2
C5_Witness ==
    /\ last.op = "insert" /\ last.key = "b" /\ last.ok /\ last.again
    /\ KeysOf(map_["m1"]) = <<"c", "b">>
    /\ keys_["m1"] = [k \in Keys |-> IF k = "c" THEN 1 ELSE IF k = "b" THEN 2 ELSE NoEntry]

\* C6: find(K) yields K's entry while K is in the container (after
\* insert(K, V)), and the end iterator once K was erased.
C6_LookupRoundTrip ==
    last.op = "find" =>
       LET s == map_[last.inst]
       IN  /\ last.key \in KeySet(s) => (last.pos # EndPos(s) /\ s[last.pos].key = last.key)
           /\ last.key \in erased[last.inst] => last.pos = EndPos(s)

\* C7: no two live Index Ledger entries carry the same sequence number.
C7_UniqueSequence ==
    \A i \in Inst : \A k1 \in LedgerKeys(keys_[i]), k2 \in LedgerKeys(keys_[i]) :
        k1 # k2 => keys_[i][k1] # keys_[i][k2]

\* C8: keys() returns exactly the first components of begin()..end(): as
\* many as size(), no filler, no write past the vector.
C8_KeysConsistent ==
    last.op = "keys" => (last.ok /\ last.out = KeysOf(Iteration(last.inst)))

\* C9: a.swap(b) gives a the entries of b in b's order and b those of a in
\* a's order, and the Ledger and Store key-sets of each still correspond.
C9_Swap ==
    [][\A i \in Inst, j \in Inst :
         (last'.op = "swap" /\ last'.inst = i /\ last'.other = j)
         => /\ map_'[i] = map_[j]
            /\ map_'[j] = map_[i]
            /\ (Corresponds(keys_, map_, i) /\ Corresponds(keys_, map_, j))
                 => (Corresponds(keys_', map_', i) /\ Corresponds(keys_', map_', j))]_vars

\* a swap of <<a, b>> with <<b>>
C9_Witness ==
    /\ last.op = "swap" /\ last.inst = "m1" /\ last.other = "m2"
    /\ KeysOf(map_["m1"]) = <<"b">>
    /\ KeysOf(map_["m2"]) = <<"a", "b">>
    /\ Corresponds(keys_, map_, "m1") /\ Corresponds(keys_, map_, "m2")

\* C10: an insertion attempt on a key the container holds changes no
\* sequence number, nor the iteration order, nor the size; insert and
\* emplace also keep the stored value and report that nothing was inserted.
C10_DuplicateFrame ==
    [][\A k \in Keys :
         (last'.op \in InsertOps /\ last'.inst = "m1" /\ last'.key = k
            /\ k \in KeySet(map_["m1"]))
         => /\ keys_' = keys_
            /\ KeysOf(map_'["m1"]) = KeysOf(map_["m1"])
            /\ Len(map_'["m1"]) = Len(map_["m1"])
            /\ last'.op # "subscript" => (map_' = map_ /\ ~last'.ok)]_vars

\* a refused insert of the first of two keys
C10_Witness ==
    /\ last.op = "emplace" /\ ~last.ok /\ last.key = "b"
    /\ KeysOf(map_["m1"]) = <<"b", "a">>
    /\ index_["m1"] = 3

Reverse(s) == [n \in 1..Len(s) |-> s[Len(s) + 1 - n]]

\* C11: with Compare = std::greater<Index>, after single-key insertions of
\* distinct keys begin()..end() yields the keys in exactly the reverse of
\* the order std::less<Index> yields for the same insertions (their order
\* of insertion).
C11_Descending ==
    \A i \in Inst : hist[i].ok =>
        KeysOf(Iteration(i)) = IF cmp_ = "less" THEN hist[i].order
                               ELSE Reverse(hist[i].order)

\* c, a, b inserted under std::greater: iteration is b, a, c
C11_Witness ==
    /\ cmp_ = "greater"
    /\ hist["m1"].ok
    /\ hist["m1"].order = <<"c", "a", "b">>
    /\ KeysOf(Iteration("m1")) = <<"b", "a", "c">>

\* C12: clear() empties Ledger and Store and leaves the counter as it was;
\* every live number is below the counter, which no call lowers, so a key
\* inserted after the clear gets a number (the counter's) above every
\* number assigned before it.
C12_Clear ==
    [][/\ (last'.op = "clear" /\ last'.inst = "m1")
            => /\ map_'["m1"] = <<>>
               /\ LedgerKeys(keys_'["m1"]) = {}
               /\ index_'["m1"] = index_["m1"]
       /\ \A k \in LedgerKeys(keys_["m1"]) : keys_["m1"][k] < index_["m1"]
       /\ index_'["m1"] >= index_["m1"]
       /\ \A k \in Keys :
            (last'.op \in InsertOps /\ last'.inst = "m1" /\ last'.key = k
               /\ keys_["m1"][k] = NoEntry)
            => keys_'["m1"][k] = index_["m1"]]_vars

\* two insertion attempts, clear(), insert(a): a is alone with number 2 (no
\* erase emptied the container: a was not in erased and erased is empty)
C12_Witness ==
    /\ last.op = "insert" /\ last.key = "a" /\ last.ok /\ ~last.again
    /\ erased["m1"] = {}
    /\ KeysOf(map_["m1"]) = <<"a">>
    /\ keys_["m1"] = [k \in Keys |-> IF k = "a" THEN 2 ELSE NoEntry]
    /\ index_["m1"] = 3

\* C13: a == b exactly when begin()..end() of a and of b yield the same
\* sequence of (key, value) pairs; the same pairs in another order compare
\* unequal, and the sequence numbers take no part.
C13_Equality ==
    last.op = "equals" =>
       LET a == Iteration(last.inst)
           b == Iteration(last.other)
       IN  /\ last.ok <=> (Len(a) = Len(b) /\ KeysOf(a) = KeysOf(b)
                            /\ [n \in 1..Len(a) |-> a[n].val] = [n \in 1..Len(b) |-> b[n].val])
           /\ (a = b /\ keys_[last.inst] # keys_[last.other]) => last.ok

\* the same two pairs, inserted a then b against b then a, are unequal
C13_Witness ==
    /\ last.op = "equals" /\ last.inst = "m1" /\ last.other = "m2" /\ ~last.ok
    /\ map_["m1"] = <<Node("a", 1), Node("b", 0)>>
    /\ map_["m2"] = <<Node("b", 0), Node("a", 1)>>

BoundOps == {"lower_bound", "upper_bound", "equal_range"}

\* C14: for a key K the container holds, lower_bound(K) is K's own entry,
\* upper_bound(K) is the entry right after it in sequence order (end() when
\* K is the last), and equal_range(K) is that pair.
C14_Bounds ==
    (last.op \in BoundOps /\ last.key \in KeySet(map_[last.inst])) =>
       LET i == last.inst
           s == map_[i]
           p == CHOOSE n \in 1..Len(s) : s[n].key = last.key
       IN  /\ \A n \in 1..Len(s) : n <= p <=> keys_[i][s[n].key] <= keys_[i][last.key]
           /\ last.op = "lower_bound" => last.pos = p
           /\ last.op = "upper_bound" => last.pos = p + 1
           /\ last.op = "equal_range" => (last.pos = p /\ last.pos2 = p + 1)

\* equal_range(a) in c, a, b: the range is from a to b
C14_Witness ==
    /\ last.op = "equal_range" /\ last.key = "a"
    /\ KeysOf(map_["m1"]) = <<"c", "a", "b">>
    /\ last.pos = 2 /\ last.pos2 = 3

Elems(q) == {q[n] : n \in 1..Len(q)}

\* C15: every mutating call (every insert form, emplace, emplace_hint,
\* operator[], erase by iterator, by range and by key, clear) updates the
\* Ledger before it runs its Store operation: the Store operation of an
\* insertion sees the new keys in the Ledger, that of an erase or a clear
\* sees the Ledger without the keys it removes.
C15_LedgerFirst ==
    /\ last.op \in InsertOps => last.key \in last.seen
    /\ last.op = "insert_range" => Elems(last.out) \subseteq last.seen
    /\ last.op = "erase_it" => last.key \notin last.seen
    /\ last.op = "erase_range" => Elems(last.out) \cap last.seen = {}
    /\ (last.op = "erase_key" /\ last.ok) => last.key \notin last.seen
    /\ last.op = "clear" => last.seen = {}

\* C15, amended: the insert forms, emplace, emplace_hint, operator[] and
\* erase by iterator or by range update the Ledger before the Store
\* operation; erase by key and clear run the Store operation first, on the
\* Ledger as the call found it, and update the Ledger after.
C15_Order ==
    [][/\ last'.op \in InsertOps => last'.key \in last'.seen
       /\ last'.op = "insert_range" => Elems(last'.out) \subseteq last'.seen
       /\ last'.op = "erase_it" => last'.key \notin last'.seen
       /\ last'.op = "erase_range" => Elems(last'.out) \cap last'.seen = {}
       /\ last'.op \in {"erase_key", "clear"}
            => last'.seen = LedgerKeys(keys_[last'.inst])]_vars

\* erase(b) of c, b: the Store erase ran while the Ledger still held b
C15_Witness ==
    /\ last.op = "erase_key" /\ last.key = "b" /\ last.ok
    /\ last.seen = {"b", "c"}
    /\ LedgerKeys(keys_["m1"]) = {"c"}
    /\ KeysOf(map_["m1"]) = <<"c">>

\* C16: a.swap(b) on two instances whose comparators point at their own
\* Ledgers leaves the comparator of a's Store pointing at b's Ledger object
\* and that of b's Store at a's, while the Ledger contents are exchanged: the
\* Ledger a's Store consults holds the entries a had before, not those of
\* the Store a has now.  A later erase by key on an instance so bound, of a
\* key its Store holds and the consulted Ledger lacks, reads an absent
\* Ledger entry.
C16_SwapBinding ==
    [][\A i \in Inst, j \in Inst :
         /\ (last'.op = "swap" /\ last'.inst = i /\ last'.other = j /\ i # j
               /\ map_comp[i] = i /\ map_comp[j] = j)
            => /\ map_comp'[i] = j /\ map_comp'[j] = i
               /\ compare_'[i] = j /\ compare_'[j] = i
               /\ keys_'[i] = keys_[j] /\ keys_'[j] = keys_[i]
               /\ map_'[i] = map_[j] /\ map_'[j] = map_[i]
               /\ keys_'[map_comp'[i]] = keys_[i]
         /\ (last'.op = "erase_key" /\ last'.inst = i /\ map_comp[i] = j /\ i # j
               /\ last'.key \in KeySet(map_[i])
               /\ last'.key \notin LedgerKeys(keys_[j]))
            => last'.bad]_vars

\* a holds a, a.swap(b), b.erase(a): b's own Ledger holds a, yet the
\* comparator of b's Store looked a up in the Ledger of the other instance
C16_Witness ==
    /\ last.op = "erase_key" /\ last.inst = "m2" /\ last.key = "a" /\ last.bad
    /\ map_comp["m2"] = "m1" /\ map_comp["m1"] = "m2"
    /\ last.seen = {"a"}
    /\ index_["m1"] = 1 /\ index_["m2"] = 0

ThrowOps == {"insert_throw", "subscript_throw"}

Exceeds(K, M, i) == Cardinality(LedgerKeys(K[i])) > Len(M[i])

\* what C17 says of the failing call itself: the insertion of a key the
\* Store lacks whose Store operation throws after add_index reports the
\* failure, leaves the Store as it was and the Ledger with the key's entry:
\* the Ledger's entry count exceeds size()
FailedInsert ==
    \A k \in Keys :
       (last'.op \in ThrowOps /\ last'.inst = "m1" /\ last'.key = k
          /\ k \notin KeySet(map_["m1"]))
       => /\ ~last'.ok
          /\ map_' = map_
          /\ keys_'["m1"] = add_index(keys_["m1"], index_["m1"], k)
          /\ k \in LedgerKeys(keys_'["m1"]) \ KeySet(map_'["m1"])
          /\ Exceeds(keys_', map_', "m1")

\* C17: an insertion of an absent key whose Store operation fails after
\* add_index propagates the failure and keeps the key's Ledger entry (no
\* rollback), and from then on the Ledger's entry count exceeds size().
C17_PhantomForever ==
    [][/\ FailedInsert
       /\ Exceeds(keys_, map_, "m1") => Exceeds(keys_', map_', "m1")]_vars

\* C17, amended: ... and the Ledger's entry count exceeds size() until a
\* clear() or a successful insertion of a key the Ledger held without a
\* Store node.
C17_Phantom ==
    [][/\ FailedInsert
       /\ (Exceeds(keys_, map_, "m1")
            /\ last'.op # "clear"
            /\ ~(last'.op \in InsertOps /\ last'.ok
                   /\ last'.key \in LedgerKeys(keys_["m1"])))
          => Exceeds(keys_', map_', "m1")]_vars

\* insert(a), then insert(b) fails in the Store: b has a Ledger entry and
\* no node, the counter has advanced
C17_Witness ==
    /\ last.op = "insert_throw" /\ last.key = "b" /\ ~last.ok
    /\ KeysOf(map_["m1"]) = <<"a">>
    /\ keys_["m1"] = [k \in Keys |-> IF k = "a" THEN 0 ELSE IF k = "b" THEN 1 ELSE NoEntry]
    /\ index_["m1"] = 2

\* C18: no call lowers index_; a single insertion attempt (insert, emplace,
\* emplace_hint, operator[]) raises it by one whether or not the key is
\* present, a range insertion by one per element, and no other call
\* changes it: after k attempts on a fresh container it is k.
C18_Counter ==
    [][/\ index_'["m1"] >= index_["m1"]
       /\ last'.op \in InsertOps => index_'["m1"] = index_["m1"] + 1
       /\ last'.op = "insert_range" => index_'["m1"] = index_["m1"] + Len(last'.out)
       /\ last'.op \notin InsertOps \cup {"insert_range"} => index_' = index_
       /\ hist["m1"].ok => index_["m1"] = Len(hist["m1"].order)]_vars

\* insert(b), then insert({a, a}): three attempts, two keys, counter 3
C18_Witness ==
    /\ last.op = "insert_range" /\ last.out = <<"a", "a">>
    /\ KeysOf(map_["m1"]) = <<"b", "a">>
    /\ keys_["m1"] = [k \in Keys |-> IF k = "b" THEN 0 ELSE IF k = "a" THEN 1 ELSE NoEntry]
    /\ index_["m1"] = 3

EraseOps == {"erase_key", "erase_it", "erase_range"}

\* the Store s without the nodes whose keys are in E
Without(s, E) == LET Keep(e) == e.key \notin E IN SelectSeq(s, Keep)

\* C19: an erase (by key, by iterator, by range) removes exactly the erased
\* keys from Ledger and Store and nothing else: the other nodes keep their
\* values and their relative order, the other Ledger entries their numbers.
C19_EraseFrame ==
    [][(last'.op \in EraseOps /\ last'.inst = "m1") =>
         LET E == IF last'.op = "erase_range" THEN Elems(last'.out)
                  ELSE {last'.key} \cap KeySet(map_["m1"])
         IN  /\ map_'["m1"] = Without(map_["m1"], E)
             /\ keys_'["m1"] = [k \in Keys |-> IF k \in E THEN NoEntry ELSE keys_["m1"][k]]
             /\ index_' = index_]_vars

\* C20: a copy is independent of its source: the comparator of every Store
\* resolves keys through the Ledger of the instance that holds the Store,
\* so whatever was done to the source since, a find of a key the copy holds
\* reads no absent Ledger entry and yields that key's entry.
C20_CopyIndependent ==
    /\ \A i \in Inst : map_comp[i] = i
    /\ (last.op = "find" /\ last.key \in KeySet(map_[last.inst]))
         => /\ ~last.bad
            /\ last.pos # EndPos(map_[last.inst])
            /\ map_[last.inst][last.pos].key = last.key

====
